---- MODULE Spec2Model ----
(***************************************************************************)
(* Model of the IAS python plugin sender (IasPlugin.UdpPlugin with         *)
(* IasPlugin.JsonMsg) and of the BSDB consumer                             *)
(* (IasSupport.KafkaValueConsumer).                                        *)
(*                                                                         *)
(* Sender: caller threads invoke start(), submit() and shutdown(); one     *)
(* worker executes the flush task _sendMonitorPoints.  Every statement of  *)
(* the python code that reads or writes shared state is one step.          *)
(*                                                                         *)
(* Values: the functions of IasSupport.IasValue (decoding, encoding, the   *)
(* identifier of a fullRunningId) and JsonMsg.isoTimestamp are operators,  *)
(* applied to arguments drawn from bounded sets.                           *)
(***************************************************************************)
EXTENDS Integers, Sequences, FiniteSets, TLC

VARIABLES
    started,        \* UdpPlugin._started
    shuttedDown,    \* UdpPlugin._shuttedDown
    MPointsToSend,  \* UdpPlugin._MPointsToSend : dict id -> buffered entry
    timer,          \* the object UdpPlugin._timer refers to
    lock,           \* owner of UdpPlugin._lock, or "free"
    sockClosed,     \* UdpPlugin._sock has been closed
    sent,           \* datagrams handed to socket.sendto, in order
    pc,             \* position of every caller thread
    msg,            \* the JsonMsg local of a submit() in progress
    cargs,          \* history: what the submit() in progress was given
    last,           \* history: the call that finished last, what it was given, how it ended
    ncalls,         \* number of calls made so far
    pcW,            \* position of the worker inside _sendMonitorPoints
    valuesToSend,   \* the local list valuesToSend of the worker
    workerResult,   \* how the last run of the flush task ended
    batches,        \* history: the entries taken by each drain, in order
    overwritten,    \* history: serials of entries replaced in the buffer
    info,           \* history: per stored serial, the circumstances of the store
    sdDone,         \* history: some shutdown() call has finished
    log,            \* the topic on the BSDB: per partition, the records published
    assigned,       \* the partitions assigned to KafkaValueConsumer.consumer
    position,       \* per partition, the number of records the consumer is past
    pcK,            \* position of the consumer thread (KafkaValueConsumer.run)
    messages,       \* the local messages of run: per partition, records still to handle
    cur,            \* the partition whose list the for loop of run is in (0: none)
    delivered,      \* the records passed to listener.iasValueReceived, in order
    kResult,        \* the error that ended the construction or the consumer thread
    seekPos,        \* history: per partition, the position seek_to_end set
    ctorArgs,       \* history: the listener and topic given to KafkaValueConsumer(...)
    listener,       \* KafkaValueConsumer.listener
    consumer,       \* KafkaValueConsumer.consumer, the connection to the BSDB
    startLen,       \* history: per partition, the records on the log when start() was called
    cancelReq,      \* history: the application has asked the consumer to stop
    input,          \* the argument of the function of IasValue / JsonMsg that is called
    output,         \* what the call gave: the error raised (or "none") and the value
    encoded,        \* the text toJSonString returned for the decoded IasValue
    output2,        \* what IasValue(encoded) gave
    codecPc         \* how far the calls on the input have got

senderVars == <<started, shuttedDown, MPointsToSend, timer, lock, sockClosed, sent,
                pc, msg, cargs, last, ncalls, pcW, valuesToSend, workerResult,
                batches, overwritten, info, sdDone>>

consumerVars == <<log, assigned, position, pcK, messages, cur, delivered, kResult,
                  seekPos, ctorArgs, listener, consumer, startLen, cancelReq>>

codecVars == <<input, output, encoded, output2, codecPc>>

\* what the steps of the consumer thread leave alone
ctlVars == <<ctorArgs, listener, consumer, startLen, cancelReq>>

-----------------------------------------------------------------------------
(* Bounds of the model *)

MaxCalls == 3      \* calls of start/submit/shutdown made by the callers
MaxDrains == 2     \* iterations of the flush task's while loop

MaxRecords == 3    \* records published on the topic
NPartitions == 2   \* partitions of the topic

Callers == {"c1", "c2"}
Worker == "w"

-----------------------------------------------------------------------------
(* Python values that appear as arguments *)

PyNone == [k |-> "none", s |-> "", sec |-> 0, frac |-> 0]
PyStr(x) == [k |-> "str", s |-> x, sec |-> 0, frac |-> 0]
\* a datetime with `frac` microseconds
PyDt(sec, micro) == [k |-> "dt", s |-> "", sec |-> sec, frac |-> micro]

IsNone(v) == v.k = "none"

\* str(v): a string is itself, None is "None", a datetime is rendered
\* (a non-empty text determined by its seconds and microseconds)
StrOf(v) ==
    CASE v.k = "str" -> v
      [] v.k = "none" -> PyStr("None")
      [] OTHER -> [k |-> "str", s |-> "<datetime>", sec |-> v.sec, frac |-> v.frac]

\* s.upper() on the texts of the model
Upper(v) ==
    CASE v.s = "int" -> [v EXCEPT !.s = "INT"]
      [] v.s = "a" -> [v EXCEPT !.s = "A"]
      [] v.s = "b" -> [v EXCEPT !.s = "B"]
      [] v.s = "None" -> [v EXCEPT !.s = "NONE"]
      [] OTHER -> v

IAS_SUPPORTED_TYPES ==
    {"LONG", "INT", "SHORT", "BYTE", "DOUBLE", "FLOAT", "BOOLEAN", "CHAR", "STRING", "ALARM"}

\* JsonMsg.isoTimestamp: isoformat() has a fractional part only when the
\* microseconds are not 0; split('.')[1] fails otherwise.  The result keeps
\* the first three of the six fractional digits.
IsoSplitParts(tStamp) == IF tStamp.frac = 0 THEN 1 ELSE 2
isoTimestamp(tStamp) ==
    [k |-> "str", s |-> "<iso>", sec |-> tStamp.sec, frac |-> tStamp.frac \div 1000]

NoMsg == [id |-> PyNone, timestamp |-> PyNone, value |-> PyNone, valueType |-> PyNone]

\* JsonMsg.__init__ without its test of the id
JsonMsgInitNoIdTest(id, value, valueType, timestamp) ==
    LET valueS == StrOf(value)
        typeS == Upper(StrOf(valueType))
    IN  IF timestamp.k # "dt" THEN [err |-> "ValueError", msg |-> NoMsg]
        ELSE IF IsoSplitParts(timestamp) < 2 THEN [err |-> "IndexError", msg |-> NoMsg]
        ELSE IF valueS.s = "" THEN [err |-> "ValueError", msg |-> NoMsg]
        ELSE IF typeS.s \notin IAS_SUPPORTED_TYPES THEN [err |-> "ValueError", msg |-> NoMsg]
        ELSE [err |-> "none",
              msg |-> [id |-> StrOf(id), timestamp |-> isoTimestamp(timestamp),
                       value |-> valueS, valueType |-> typeS]]

\* JsonMsg.__init__(self, id, value, valueType, timestamp)
JsonMsgInit(id, value, valueType, timestamp) ==
    LET idS == StrOf(id)
        valueS == StrOf(value)
        typeS == Upper(StrOf(valueType))
    IN  IF idS.s = "" THEN [err |-> "ValueError", msg |-> NoMsg]
        ELSE IF timestamp.k # "dt" THEN [err |-> "ValueError", msg |-> NoMsg]
        ELSE IF IsoSplitParts(timestamp) < 2 THEN [err |-> "IndexError", msg |-> NoMsg]
        ELSE IF valueS.s = "" THEN [err |-> "ValueError", msg |-> NoMsg]
        ELSE IF typeS.s = "" THEN [err |-> "ValueError", msg |-> NoMsg]
        ELSE IF typeS.s \notin IAS_SUPPORTED_TYPES THEN [err |-> "ValueError", msg |-> NoMsg]
        ELSE [err |-> "none",
              msg |-> [id |-> idS, timestamp |-> isoTimestamp(timestamp),
                       value |-> valueS, valueType |-> typeS]]

\* JsonMsg.dumps: the four-field JSON object
dumps(m) == [id |-> m.id.s, timestamp |-> m.timestamp, value |-> m.value,
             valueType |-> m.valueType.s]

-----------------------------------------------------------------------------
(* Arguments the callers pass to submit *)

DtA == PyDt(5, 775444)
DtB == PyDt(6, 999999)
DtZ == PyDt(7, 0)

Args(i, t, v, vt) == [id |-> i, timestamp |-> t, value |-> v, valueType |-> vt]

\* submit(id, timestamp, value, valueType) as the callers of the model use it
SubmitArgs ==
    {   \* one argument None
        Args(PyNone, DtA, PyStr("int"), PyStr("INT")),
        Args(PyStr("a"), PyNone, PyStr("int"), PyStr("INT")),
        Args(PyStr("a"), DtA, PyNone, PyStr("INT")),
        Args(PyStr("a"), DtA, PyStr("int"), PyNone),
        \* one argument empty
        Args(PyStr(""), DtA, PyStr("int"), PyStr("INT")),
        Args(PyStr("a"), DtA, PyStr(""), PyStr("INT")),
        Args(PyStr("a"), DtA, PyStr("int"), PyStr("")),
        Args(PyStr("a"), DtA, PyStr(""), DtA),
        Args(PyStr("a"), DtA, PyStr(""), DtZ),
        Args(PyStr(""), DtA, PyStr("int"), DtA),
        \* a datetime timestamp and a type literal
        Args(PyStr("a"), DtA, PyStr("int"), PyStr("INT")),
        Args(PyStr("b"), DtB, PyStr("int"), PyStr("INT")),
        \* a datetime in the place of the type
        Args(PyStr("a"), DtA, PyStr("int"), DtA),
        Args(PyStr("a"), DtB, PyStr("int"), DtA),
        Args(PyStr("b"), DtA, PyStr("int"), DtA),
        Args(PyStr("a"), DtA, PyStr("int"), DtZ) }

\* what the history keeps of the arguments of a call
ArgClass(a) ==
    [none |-> IsNone(a.id) \/ IsNone(a.timestamp) \/ IsNone(a.value) \/ IsNone(a.valueType),
     empty |-> a.id = PyStr("") \/ a.value = PyStr("") \/ a.valueType = PyStr(""),
     valid |-> /\ a.id.k = "str" /\ a.id.s # ""
               /\ a.timestamp.k = "dt"
               /\ a.value.k = "str" /\ a.value.s # ""
               /\ a.valueType.k = "str" /\ Upper(a.valueType).s \in IAS_SUPPORTED_TYPES]
NoArgs == [none |-> FALSE, empty |-> FALSE, valid |-> FALSE]

Errors == {"ValueError", "IndexError", "AttributeError"}

-----------------------------------------------------------------------------
(* The attributes set on the object by UdpPlugin.__init__ *)

Attributes == {"_hostname", "_port", "_ip", "logger", "_MPointsToSend", "_sock",
               "_shuttedDown", "_started", "_timer", "_lock"}

\* the attribute _send reads the socket from
SendSocketAttr == "sock"

\* Thread.join works on a started thread only.  UdpPlugin.start overrides
\* Thread.start and does not call it, and __init__/start rebind the attribute
\* _started, which Thread.join reads as an Event, to a bool.
ThreadStarted == FALSE

\* a timer that is armed from its construction
ArmedTimer == "armed"

\* Timer(...) builds a timer; only Timer.start() arms it
NewTimer == "created"
TimerArmed == timer = "armed"

-----------------------------------------------------------------------------
(* Initial state: the object after UdpPlugin.__init__ *)

SenderInit ==
    /\ started = FALSE
    /\ shuttedDown = FALSE
    /\ MPointsToSend = <<>>
    /\ timer = "none"
    /\ lock = "free"
    /\ sockClosed = FALSE
    /\ sent = <<>>
    /\ pc = [c \in Callers |-> "idle"]
    /\ msg = [c \in Callers |-> NoMsg]
    /\ cargs = [c \in Callers |-> NoArgs]
    /\ last = [op |-> "none", args |-> NoArgs, result |-> "none"]
    /\ ncalls = 0
    /\ pcW = "idle"
    /\ valuesToSend = {}
    /\ workerResult = "none"
    /\ batches = <<>>
    /\ overwritten = {}
    /\ info = <<>>
    /\ sdDone = FALSE

-----------------------------------------------------------------------------
(* Caller threads *)

\* a call ends: it returns ("returned") or raises r
Finish(c, o, a, r) ==
    /\ pc' = [pc EXCEPT ![c] = "idle"]
    /\ last' = [op |-> o, args |-> a, result |-> r]

BeginCall(c) ==
    /\ pc[c] = "idle"
    /\ ncalls < MaxCalls
    /\ ncalls' = ncalls + 1

\* UdpPlugin.start
Start(c) ==
    /\ BeginCall(c)
    /\ started' = TRUE
    /\ timer' = NewTimer
    /\ Finish(c, "start", NoArgs, "returned")
    /\ UNCHANGED <<consumerVars, codecVars, shuttedDown, MPointsToSend, lock, sockClosed, sent, msg, cargs, pcW,
                   valuesToSend, workerResult, batches, overwritten, info, sdDone>>

\* the four "is None" tests of submit
SubmitNoneCheck(a) ==
    IsNone(a.id) \/ IsNone(a.timestamp) \/ IsNone(a.value) \/ IsNone(a.valueType)

\* submit builds its message with JsonMsg(id, timestamp, value, valueType):
\* the arguments are bound by position to (id, value, valueType, timestamp)
SubmitJsonMsg(a) == JsonMsgInit(a.id, a.timestamp, a.value, a.valueType)

\* UdpPlugin.submit up to the construction of the message
Submit(c) ==
    \E a \in SubmitArgs :
        LET m == SubmitJsonMsg(a)
        IN  /\ BeginCall(c)
            /\ IF SubmitNoneCheck(a)
               THEN Finish(c, "submit", ArgClass(a), "ValueError") /\ UNCHANGED <<msg, cargs>>
               ELSE IF shuttedDown
               THEN Finish(c, "submit", ArgClass(a), "returned") /\ UNCHANGED <<msg, cargs>>
               ELSE IF m.err # "none"
               THEN Finish(c, "submit", ArgClass(a), m.err) /\ UNCHANGED <<msg, cargs>>
               ELSE /\ pc' = [pc EXCEPT ![c] = "sub_acquire"]
                    /\ msg' = [msg EXCEPT ![c] = m.msg]
                    /\ cargs' = [cargs EXCEPT ![c] = ArgClass(a)]
                    /\ last' = last
            /\ UNCHANGED <<consumerVars, codecVars, started, shuttedDown, MPointsToSend, timer, lock, sockClosed,
                           sent, pcW, valuesToSend, workerResult, batches,
                           overwritten, info, sdDone>>

\* self._lock.acquire() of submit
SubmitAcquire(c) ==
    /\ pc[c] = "sub_acquire"
    /\ lock = "free"
    /\ lock' = c
    /\ pc' = [pc EXCEPT ![c] = "sub_store"]
    /\ UNCHANGED <<consumerVars, codecVars, started, shuttedDown, MPointsToSend, timer, sockClosed, sent, msg, cargs,
                   last, ncalls, pcW, valuesToSend, workerResult,
                   batches, overwritten, info, sdDone>>

\* d[key] = e on a dict
DictPut(d, key, e) ==
    [x \in (DOMAIN d) \cup {key} |-> IF x = key THEN e ELSE d[x]]

\* self._MPointsToSend[msg.id]=msg
StoreMPoint(d, m, ser) == DictPut(d, m.id.s, [msg |-> m, ser |-> ser])

\* the store of submit without the release of the lock
SubmitStoreKeepLock(c) ==
    LET key == msg[c].id.s
        ser == Len(info) + 1
    IN  /\ pc[c] = "sub_store"
        /\ lock = c
        /\ MPointsToSend' = StoreMPoint(MPointsToSend, msg[c], ser)
        /\ overwritten' = IF key \in DOMAIN MPointsToSend
                          THEN overwritten \cup {MPointsToSend[key].ser}
                          ELSE overwritten
        /\ info' = Append(info, [drains |-> Len(batches), shut |-> shuttedDown,
                                 started |-> started])
        /\ lock' = lock
        /\ pc' = [pc EXCEPT ![c] = "sub_log"]
        /\ UNCHANGED <<consumerVars, codecVars, started, shuttedDown, timer, sockClosed, sent, msg, cargs, last,
                       ncalls, pcW, valuesToSend, workerResult, batches, sdDone>>

\* the store of submit and the release of the lock
SubmitStore(c) ==
    LET key == msg[c].id.s
        ser == Len(info) + 1
    IN  /\ pc[c] = "sub_store"
        /\ lock = c
        /\ MPointsToSend' = StoreMPoint(MPointsToSend, msg[c], ser)
        /\ overwritten' = IF key \in DOMAIN MPointsToSend
                          THEN overwritten \cup {MPointsToSend[key].ser}
                          ELSE overwritten
        /\ info' = Append(info, [drains |-> Len(batches), shut |-> shuttedDown,
                                 started |-> started])
        /\ lock' = "free"
        /\ pc' = [pc EXCEPT ![c] = "sub_log"]
        /\ UNCHANGED <<consumerVars, codecVars, started, shuttedDown, timer, sockClosed, sent, msg, cargs, last,
                       ncalls, pcW, valuesToSend, workerResult, batches, sdDone>>

\* the logger.debug call that ends submit (it reads the size of the buffer)
SubmitLog(c) ==
    /\ pc[c] = "sub_log"
    /\ Finish(c, "submit", cargs[c], "returned")
    /\ cargs' = [cargs EXCEPT ![c] = NoArgs]
    /\ UNCHANGED <<consumerVars, codecVars, started, shuttedDown, MPointsToSend, timer, lock, sockClosed, sent,
                   msg, ncalls, pcW, valuesToSend, workerResult,
                   batches, overwritten, info, sdDone>>

\* UdpPlugin.shutdown is called
Shutdown(c) ==
    /\ BeginCall(c)
    /\ pc' = [pc EXCEPT ![c] = "sd_acquire"]
    /\ UNCHANGED <<consumerVars, codecVars, started, shuttedDown, MPointsToSend, timer, lock, sockClosed, sent,
                   msg, cargs, last, pcW, valuesToSend, workerResult, batches, overwritten,
                   info, sdDone>>

\* self._lock.acquire(blocking=True) of shutdown
ShutdownAcquire(c) ==
    /\ pc[c] = "sd_acquire"
    /\ lock = "free"
    /\ lock' = c
    /\ pc' = [pc EXCEPT ![c] = "sd_set"]
    /\ UNCHANGED <<consumerVars, codecVars, started, shuttedDown, MPointsToSend, timer, sockClosed, sent, msg, cargs,
                   last, ncalls, pcW, valuesToSend, workerResult,
                   batches, overwritten, info, sdDone>>

\* self._shuttedDown = True and the release of the lock
ShutdownSetFlag(c) ==
    /\ pc[c] = "sd_set"
    /\ lock = c
    /\ shuttedDown' = TRUE
    /\ lock' = "free"
    /\ pc' = [pc EXCEPT ![c] = "sd_check"]
    /\ UNCHANGED <<consumerVars, codecVars, started, MPointsToSend, timer, sockClosed, sent, msg, cargs,
                   last, ncalls, pcW, valuesToSend, workerResult, batches,
                   overwritten, info, sdDone>>

\* if self._started: self._timer.cancel()
ShutdownCancel(c) ==
    /\ pc[c] = "sd_check"
    /\ IF started
       THEN /\ timer' = "cancelled"
            /\ pc' = [pc EXCEPT ![c] = "sd_join"]
            /\ UNCHANGED <<last, sdDone>>
       ELSE /\ Finish(c, "shutdown", NoArgs, "returned")
            /\ sdDone' = TRUE
            /\ timer' = timer
    /\ UNCHANGED <<consumerVars, codecVars, started, shuttedDown, MPointsToSend, lock, sockClosed, sent,
                   msg, cargs, ncalls, pcW, valuesToSend, workerResult, batches,
                   overwritten, info>>

\* self.join(1) and, when it returns, self._sock.close()
ShutdownJoin(c) ==
    /\ pc[c] = "sd_join"
    /\ IF ThreadStarted
       THEN sockClosed' = TRUE /\ Finish(c, "shutdown", NoArgs, "returned")
       ELSE sockClosed' = sockClosed /\ Finish(c, "shutdown", NoArgs, "AttributeError")
    /\ sdDone' = TRUE
    /\ UNCHANGED <<consumerVars, codecVars, started, shuttedDown, MPointsToSend, timer, lock, sent,
                   msg, cargs, ncalls, pcW, valuesToSend, workerResult, batches,
                   overwritten, info>>

-----------------------------------------------------------------------------
(* The worker that executes the flush task _sendMonitorPoints *)

callerVars == <<pc, msg, cargs, last, ncalls>>

\* The task starts to execute.  It is the function handed to Timer; the
\* timers the plugin builds are never armed, so the task runs only when it
\* is called.
RunFlushTask ==
    /\ pcW = "idle"
    /\ pcW' = "while"
    /\ workerResult' = "none"
    /\ UNCHANGED <<started, shuttedDown, MPointsToSend, timer, lock, sockClosed, sent,
                   valuesToSend, batches, overwritten, info, sdDone>>
    /\ UNCHANGED <<callerVars, consumerVars, codecVars>>

\* while not self._shuttedDown:
FlushWhile ==
    /\ pcW = "while"
    /\ IF shuttedDown
       THEN pcW' = "idle" /\ workerResult' = "returned"
       ELSE Len(batches) < MaxDrains /\ pcW' = "drain_acquire" /\ workerResult' = workerResult
    /\ UNCHANGED <<started, shuttedDown, MPointsToSend, timer, lock, sockClosed, sent,
                   valuesToSend, batches, overwritten, info, sdDone>>
    /\ UNCHANGED <<callerVars, consumerVars, codecVars>>

\* self._lock.acquire() before the drain
FlushAcquire ==
    /\ pcW = "drain_acquire"
    /\ lock = "free"
    /\ lock' = Worker
    /\ pcW' = "drain"
    /\ UNCHANGED <<started, shuttedDown, MPointsToSend, timer, sockClosed, sent,
                   valuesToSend, workerResult, batches, overwritten, info, sdDone>>
    /\ UNCHANGED <<callerVars, consumerVars, codecVars>>

\* list(self._MPointsToSend.values())
DictValues(d) == {d[x] : x \in DOMAIN d}

\* a clear() that leaves the dict as it is
DictClearNothing(d) == d

\* self._MPointsToSend.clear()
DictClear(d) == <<>>

\* the copy of the buffer, its clear() and the release of the lock
FlushDrain ==
    /\ pcW = "drain"
    /\ lock = Worker
    /\ valuesToSend' = DictValues(MPointsToSend)
    /\ MPointsToSend' = DictClear(MPointsToSend)
    /\ batches' = Append(batches, {e.ser : e \in DictValues(MPointsToSend)})
    /\ lock' = "free"
    /\ pcW' = "send"
    /\ UNCHANGED <<started, shuttedDown, timer, sockClosed, sent, workerResult,
                   overwritten, info, sdDone>>
    /\ UNCHANGED <<callerVars, consumerVars, codecVars>>

\* UdpPlugin._send: the object has the attribute it reads the socket from
SendHasSocket == SendSocketAttr \in Attributes

\* one iteration of "for mPoint in valuesToSend: self._send(mPoint)", or the
\* end of the loop and valuesToSend.clear()
FlushSend ==
    /\ pcW = "send"
    /\ IF valuesToSend = {}
       THEN /\ pcW' = "resched_check"
            /\ UNCHANGED <<valuesToSend, sent, workerResult>>
       ELSE \E e \in valuesToSend :
                /\ valuesToSend' = valuesToSend \ {e}
                /\ IF SendHasSocket
                   THEN /\ sent' = Append(sent, [payload |-> dumps(e.msg), ser |-> e.ser,
                                                 closed |-> sockClosed])
                        /\ UNCHANGED <<pcW, workerResult>>
                   ELSE /\ sent' = sent
                        /\ pcW' = "idle"
                        /\ workerResult' = "AttributeError"
    /\ UNCHANGED <<started, shuttedDown, MPointsToSend, timer, lock, sockClosed,
                   batches, overwritten, info, sdDone>>
    /\ UNCHANGED <<callerVars, consumerVars, codecVars>>

\* if not self._shuttedDown:
FlushReschedCheck ==
    /\ pcW = "resched_check"
    /\ pcW' = IF shuttedDown THEN "while" ELSE "resched_acquire"
    /\ UNCHANGED <<started, shuttedDown, MPointsToSend, timer, lock, sockClosed, sent,
                   valuesToSend, workerResult, batches, overwritten, info, sdDone>>
    /\ UNCHANGED <<callerVars, consumerVars, codecVars>>

\* self._lock.acquire() before the timer is replaced
FlushReschedAcquire ==
    /\ pcW = "resched_acquire"
    /\ lock = "free"
    /\ lock' = Worker
    /\ pcW' = "resched"
    /\ UNCHANGED <<started, shuttedDown, MPointsToSend, timer, sockClosed, sent,
                   valuesToSend, workerResult, batches, overwritten, info, sdDone>>
    /\ UNCHANGED <<callerVars, consumerVars, codecVars>>

\* self._timer = Timer(...) and the release of the lock
FlushResched ==
    /\ pcW = "resched"
    /\ lock = Worker
    /\ timer' = NewTimer
    /\ lock' = "free"
    /\ pcW' = "while"
    /\ UNCHANGED <<started, shuttedDown, MPointsToSend, sockClosed, sent, valuesToSend,
                   workerResult, batches, overwritten, info, sdDone>>
    /\ UNCHANGED <<callerVars, consumerVars, codecVars>>

\* the steps in which a caller reads or writes self._MPointsToSend: the
\* store, and len(self._MPointsToSend) in the arguments of logger.debug
CallerTouchesBuffer(c) == SubmitStore(c) \/ SubmitLog(c)

\* the steps in which the worker reads or writes self._MPointsToSend:
\* len(self._MPointsToSend) in the arguments of logger.debug at the head of
\* the loop body, and the copy and clear
WorkerTouchesBuffer == (FlushWhile /\ ~shuttedDown) \/ FlushDrain

WorkerStep ==
    \/ FlushWhile
    \/ FlushAcquire
    \/ FlushDrain
    \/ FlushSend
    \/ FlushReschedCheck
    \/ FlushReschedAcquire
    \/ FlushResched

SenderNext ==
    \/ \E c \in Callers : Start(c)
    \/ \E c \in Callers : Submit(c)
    \/ \E c \in Callers : SubmitAcquire(c)
    \/ \E c \in Callers : SubmitStore(c)
    \/ \E c \in Callers : SubmitLog(c)
    \/ \E c \in Callers : Shutdown(c)
    \/ \E c \in Callers : ShutdownAcquire(c)
    \/ \E c \in Callers : ShutdownSetFlag(c)
    \/ \E c \in Callers : ShutdownCancel(c)
    \/ \E c \in Callers : ShutdownJoin(c)
    \/ RunFlushTask
    \/ WorkerStep

-----------------------------------------------------------------------------
(* The consumer of IasValues, KafkaValueConsumer, and the topic it reads *)

Partitions == 1..NPartitions

\* a record on the topic: n numbers the records in the order of their
\* publication, ok tells whether its payload is the JSON of an IasValue
Record(n, ok) == [n |-> n, ok |-> ok]

Published == UNION {{log[p][i] : i \in 1..Len(log[p])} : p \in Partitions}

\* the arguments of KafkaValueConsumer(listener, kafkabrokers, topic, ...):
\* None, an object that is not an IasValueListener, an IasValueListener
ListenerArgs == {"None", "object", "listener"}
TopicArgs == {"None", "topic"}
NoCtorArgs == [listener |-> "unset", topic |-> "unset"]

\* KafkaValueConsumer.__init__ without its tests of the listener
KafkaValueConsumerInitNoListenerTest(l, t) ==
    IF t = "None" THEN [err |-> "ValueError", listener |-> l, consumer |-> "none"]
    ELSE [err |-> "none", listener |-> l, consumer |-> "connected"]

\* KafkaValueConsumer.__init__: the error raised (or "none"), and what has
\* been set on the object when it ends
KafkaValueConsumerInit(l, t) ==
    IF l = "None" THEN [err |-> "ValueError", listener |-> "unset", consumer |-> "none"]
    ELSE IF l # "listener" THEN [err |-> "ValueError", listener |-> "unset", consumer |-> "none"]
    ELSE IF t = "None" THEN [err |-> "ValueError", listener |-> l, consumer |-> "none"]
    ELSE [err |-> "none", listener |-> l, consumer |-> "connected"]

\* Initial state: the topic is empty, no consumer has been built
ConsumerInit ==
    /\ log = [p \in Partitions |-> <<>>]
    /\ assigned = {}
    /\ position = [p \in Partitions |-> 0]
    /\ pcK = "unbuilt"
    /\ ctorArgs = NoCtorArgs
    /\ listener = "unset"
    /\ consumer = "none"
    /\ startLen = [p \in Partitions |-> 0]
    /\ cancelReq = FALSE
    /\ messages = [p \in Partitions |-> <<>>]
    /\ cur = 0
    /\ delivered = <<>>
    /\ kResult = "none"
    /\ seekPos = [p \in Partitions |-> 0]

\* a producer publishes a record on a partition of the topic
Publish ==
    \E p \in Partitions, ok \in BOOLEAN :
        /\ Cardinality(Published) < MaxRecords
        /\ log' = [log EXCEPT ![p] = Append(@, Record(Cardinality(Published) + 1, ok))]
        /\ UNCHANGED <<assigned, position, pcK, messages, cur, delivered, kResult, seekPos>>
        /\ UNCHANGED ctlVars
        /\ UNCHANGED <<senderVars, codecVars>>

\* KafkaValueConsumer(listener, kafkabrokers, topic, clientid, groupid): the
\* object exists ("new") when __init__ returns, not when it raises
Construct ==
    /\ pcK = "unbuilt"
    /\ \E l \in ListenerArgs, t \in TopicArgs :
        LET r == KafkaValueConsumerInit(l, t)
        IN  /\ ctorArgs' = [listener |-> l, topic |-> t]
            /\ listener' = r.listener
            /\ consumer' = r.consumer
            /\ pcK' = IF r.err = "none" THEN "new" ELSE "failed"
            /\ kResult' = r.err
    /\ UNCHANGED <<log, assigned, position, messages, cur, delivered, seekPos,
                   startLen, cancelReq>>
    /\ UNCHANGED <<senderVars, codecVars>>

\* the application wants the consumer to stop.  The class has no operation
\* for it and run has no stop condition: nothing of the object changes.
RequestCancel ==
    /\ pcK \in {"seek", "poll", "handle"}
    /\ ~cancelReq
    /\ cancelReq' = TRUE
    /\ UNCHANGED <<log, assigned, position, pcK, messages, cur, delivered, kResult,
                   seekPos, ctorArgs, listener, consumer, startLen>>
    /\ UNCHANGED <<senderVars, codecVars>>

\* a lookup that finds the first partition only
partitions_for_topic_first == {1}

\* consumer.partitions_for_topic(self.topic)
partitions_for_topic == Partitions

\* KafkaValueConsumer.start: assign every partition of the topic, start the thread
ConsumerStart ==
    /\ pcK = "new"
    /\ assigned' = partitions_for_topic
    /\ pcK' = "seek"
    /\ startLen' = [p \in Partitions |-> Len(log[p])]
    /\ UNCHANGED <<log, position, messages, cur, delivered, kResult, seekPos>>
    /\ UNCHANGED <<ctorArgs, listener, consumer, cancelReq>>
    /\ UNCHANGED <<senderVars, codecVars>>

\* a seek that leaves every position where it is
seek_nowhere(pos) == pos

\* consumer.seek_to_end(): the position of every assigned partition becomes
\* the end of its log
seek_to_end(pos) ==
    [p \in Partitions |-> IF p \in assigned THEN Len(log[p]) ELSE pos[p]]

\* self.consumer.seek_to_end(), the first statement of run
SeekToEnd ==
    /\ pcK = "seek"
    /\ position' = seek_to_end(position)
    /\ seekPos' = position'
    /\ pcK' = "poll"
    /\ UNCHANGED <<log, assigned, messages, cur, delivered, kResult>>
    /\ UNCHANGED ctlVars
    /\ UNCHANGED <<senderVars, codecVars>>

\* messages = self.consumer.poll(500): per assigned partition, some of the
\* records past the position (none when the wait times out)
Poll ==
    /\ pcK = "poll"
    /\ \E n \in [Partitions -> 0..MaxRecords] :
        /\ \A p \in Partitions :
            n[p] <= (IF p \in assigned THEN Len(log[p]) - position[p] ELSE 0)
        /\ messages' = [p \in Partitions |->
                            SubSeq(log[p], position[p] + 1, position[p] + n[p])]
        /\ position' = [p \in Partitions |-> position[p] + n[p]]
    /\ pcK' = "handle"
    /\ cur' = 0
    /\ UNCHANGED <<log, assigned, delivered, kResult, seekPos>>
    /\ UNCHANGED ctlVars
    /\ UNCHANGED <<senderVars, codecVars>>

\* poll raises: "except: break" ends the loop and run returns
PollFails ==
    /\ pcK = "poll"
    /\ pcK' = "terminated"
    /\ kResult' = "PollError"
    /\ UNCHANGED <<log, assigned, position, messages, cur, delivered, seekPos>>
    /\ UNCHANGED ctlVars
    /\ UNCHANGED <<senderVars, codecVars>>

\* IasValue.fromJSon(json): the value of a well-formed payload, an error otherwise
fromJSon(r) == IF r.ok THEN "value" ELSE "error"

\* the for loops of run are at a partition's list, or take the next list
ListOf(p) == cur = p \/ (cur = 0 /\ messages[p] # <<>>)

\* a loop that takes the records of a list from its end
HandleRecordLastFirst ==
    /\ pcK = "handle"
    /\ \E p \in Partitions :
        /\ ListOf(p)
        /\ fromJSon(messages[p][Len(messages[p])]) = "value"
        /\ delivered' = Append(delivered, messages[p][Len(messages[p])])
        /\ messages' = [messages EXCEPT ![p] = SubSeq(@, 1, Len(@) - 1)]
        /\ cur' = IF Len(messages[p]) = 1 THEN 0 ELSE p
    /\ UNCHANGED <<log, assigned, position, pcK, kResult, seekPos>>
    /\ UNCHANGED ctlVars
    /\ UNCHANGED <<senderVars, codecVars>>

\* the record is decoded and passed to the listener, which returns
HandleRecord ==
    /\ pcK = "handle"
    /\ \E p \in Partitions :
        /\ ListOf(p)
        /\ fromJSon(Head(messages[p])) = "value"
        /\ delivered' = Append(delivered, Head(messages[p]))
        /\ messages' = [messages EXCEPT ![p] = Tail(@)]
        /\ cur' = IF Len(messages[p]) = 1 THEN 0 ELSE p
    /\ UNCHANGED <<log, assigned, position, pcK, kResult, seekPos>>
    /\ UNCHANGED ctlVars
    /\ UNCHANGED <<senderVars, codecVars>>

\* the decoding of the record raises: nothing in run catches it
DecodeFails ==
    /\ pcK = "handle"
    /\ \E p \in Partitions :
        /\ ListOf(p)
        /\ fromJSon(Head(messages[p])) = "error"
        /\ messages' = [messages EXCEPT ![p] = Tail(@)]
        /\ cur' = p
    /\ pcK' = "died"
    /\ kResult' = "DecodeError"
    /\ UNCHANGED <<log, assigned, position, delivered, seekPos>>
    /\ UNCHANGED ctlVars
    /\ UNCHANGED <<senderVars, codecVars>>

\* listener.iasValueReceived raises: nothing in run catches it
ListenerFails ==
    /\ pcK = "handle"
    /\ \E p \in Partitions :
        /\ ListOf(p)
        /\ fromJSon(Head(messages[p])) = "value"
        /\ delivered' = Append(delivered, Head(messages[p]))
        /\ messages' = [messages EXCEPT ![p] = Tail(@)]
        /\ cur' = p
    /\ pcK' = "died"
    /\ kResult' = "ListenerError"
    /\ UNCHANGED <<log, assigned, position, seekPos>>
    /\ UNCHANGED ctlVars
    /\ UNCHANGED <<senderVars, codecVars>>

\* every list of messages is worked off: back to "while True"
HandleDone ==
    /\ pcK = "handle"
    /\ \A p \in Partitions : messages[p] = <<>>
    /\ pcK' = "poll"
    /\ UNCHANGED <<log, assigned, position, messages, cur, delivered, kResult, seekPos>>
    /\ UNCHANGED ctlVars
    /\ UNCHANGED <<senderVars, codecVars>>

ConsumerNext ==
    \/ Publish
    \/ Construct
    \/ RequestCancel
    \/ ConsumerStart
    \/ SeekToEnd
    \/ Poll
    \/ PollFails
    \/ HandleRecord
    \/ DecodeFails
    \/ ListenerFails
    \/ HandleDone

-----------------------------------------------------------------------------
(* Texts.  A text is a sequence of tokens: the characters "(", ")", ":" and *)
(* "@" that getIdFromFullRunningId looks at, the literal "IASIO", and words *)
(* that contain none of these.                                              *)

MaxSegments == 2   \* segments of a fullRunningId

\* s.count(tok)
Count(s, tok) == Cardinality({i \in 1..Len(s) : s[i] = tok})

\* s.split(sep): the pieces of s between the separators, in order
RECURSIVE Split(_, _)
Split(s, sep) ==
    IF \A i \in 1..Len(s) : s[i] # sep THEN <<s>>
    ELSE LET i == CHOOSE k \in 1..Len(s) : s[k] = sep /\ \A m \in 1..(k - 1) : s[m] # sep
         IN  <<SubSeq(s, 1, i - 1)>> \o Split(SubSeq(s, i + 1, Len(s)), sep)

\* sep.join(parts)
RECURSIVE Join(_, _)
Join(parts, sep) ==
    IF parts = <<>> THEN <<>>
    ELSE IF Len(parts) = 1 THEN parts[1]
    ELSE parts[1] \o <<sep>> \o Join(Tail(parts), sep)

NoId == <<>>

\* IasValue.getIdFromFullRunningId(frid), frid a text
getIdFromFullRunningId(frid) ==
    IF frid = <<>> THEN [err |-> "ValueError", val |-> NoId]
    ELSE LET parts == Split(frid, "@")
             iasioIdList == SelectSeq(parts, LAMBDA t : Count(t, "IASIO") > 0)
         IN  IF Len(iasioIdList) # 1 THEN [err |-> "ValueError", val |-> NoId]
             ELSE LET iasioId == iasioIdList[1]
                  IN  IF \/ iasioId[1] # "("
                         \/ iasioId[Len(iasioId)] # ")"
                         \/ Count(iasioId, ":") # 1
                      THEN [err |-> "ValueError", val |-> NoId]
                      ELSE [err |-> "none",
                            val |-> Split(SubSeq(iasioId, 2, Len(iasioId) - 1), ":")[1]]

\* the segments the identifiers of the model are made of: with or without
\* each parenthesis, a name, no, one or two colons, a type
Segments ==
    {open \o name \o colons \o type \o close :
        open \in {<<>>, <<"(">>},
        name \in {<<"compA">>, <<"compB">>, <<"IASIO">>},
        colons \in {<<>>, <<":">>, <<":", ":">>},
        type \in {<<"OtherType">>, <<"IASIO">>},
        close \in {<<>>, <<")">>}}

RECURSIVE SegmentLists(_)
SegmentLists(n) ==
    IF n = 0 THEN {<<>>}
    ELSE SegmentLists(n - 1)
            \cup {Append(l, g) : l \in {x \in SegmentLists(n - 1) : Len(x) = n - 1},
                                 g \in Segments}

\* the fullRunningIds getIdFromFullRunningId is called with
FullRunningIds == {Join(l, "@") : l \in SegmentLists(MaxSegments)}

-----------------------------------------------------------------------------
(* IasValue: the JSON text of a value and the object built from it *)

RequiredKeys == {"value", "valueType", "fullRunningId", "mode", "iasValidity"}
TStampKeys == {"pluginProductionTStamp", "sentToConverterTStamp", "receivedFromPluginTStamp",
               "convertedProductionTStamp", "sentToBsdbTStamp", "readFromBsdbTStamp",
               "dasuProductionTStamp"}
OptionalKeys == {"depsFullRunningIds", "props"} \cup TStampKeys

\* the members of the enumerations the strings are converted to
IASTypes == IAS_SUPPORTED_TYPES
OperationalModes == {"OPERATIONAL", "MAINTENANCE", "UNKNOWN"}
Validities == {"RELIABLE", "UNRELIABLE"}

\* IASType.fromString, OperationalMode.fromString, Validity.fromString: the
\* member named by the string, an error when there is none
IASType_fromString(x) ==
    IF x.s \in IASTypes THEN [err |-> "none", val |-> [enum |-> "IASType", name |-> x.s]]
    ELSE [err |-> "NotImplementedError", val |-> [enum |-> "IASType", name |-> ""]]
OperationalMode_fromString(x) ==
    IF x.s \in OperationalModes
    THEN [err |-> "none", val |-> [enum |-> "OperationalMode", name |-> x.s]]
    ELSE [err |-> "NotImplementedError", val |-> [enum |-> "OperationalMode", name |-> ""]]
Validity_fromString(x) ==
    IF x.s \in Validities THEN [err |-> "none", val |-> [enum |-> "Validity", name |-> x.s]]
    ELSE [err |-> "NotImplementedError", val |-> [enum |-> "Validity", name |-> ""]]

\* Iso8601TStamp.Iso8601ToDatetime: the instant the text denotes
Iso8601ToDatetime(x) == [k |-> "dt", s |-> x.s, sec |-> 0, frac |-> 0]

\* a JSON text: well-formed or not, and the object it denotes
JsonText(obj) == [wellformed |-> TRUE, obj |-> obj]
NotJson == [wellformed |-> FALSE, obj |-> <<>>]

\* json.loads
json_loads(jsonStr) ==
    IF jsonStr.wellformed THEN [err |-> "none", val |-> jsonStr.obj]
    ELSE [err |-> "ValueError", val |-> <<>>]

\* json.dumps
json_dumps(obj) == [wellformed |-> TRUE, obj |-> obj]

\* IasValue.getValue(jsonDict, key)
getValue(jsonDict, key) == IF key \in DOMAIN jsonDict THEN jsonDict[key] ELSE PyNone

NoValue == <<>>

\* IasValue.__init__(jsonStr): the error raised (or "none") and the
\* attributes of the object
IasValueInit(jsonStr) ==
    LET loaded == json_loads(jsonStr)
        fromJson == loaded.val
        Has(k) == k \in DOMAIN fromJson
    IN  IF loaded.err # "none" THEN [err |-> loaded.err, val |-> NoValue]
        ELSE IF ~Has("value") \/ ~Has("valueType") THEN [err |-> "KeyError", val |-> NoValue]
        ELSE IF IASType_fromString(fromJson["valueType"]).err # "none"
             THEN [err |-> IASType_fromString(fromJson["valueType"]).err, val |-> NoValue]
        ELSE IF ~Has("fullRunningId") THEN [err |-> "KeyError", val |-> NoValue]
        ELSE IF getIdFromFullRunningId(fromJson["fullRunningId"]).err # "none"
             THEN [err |-> "ValueError", val |-> NoValue]
        ELSE IF ~Has("mode") THEN [err |-> "KeyError", val |-> NoValue]
        ELSE IF OperationalMode_fromString(fromJson["mode"]).err # "none"
             THEN [err |-> OperationalMode_fromString(fromJson["mode"]).err, val |-> NoValue]
        ELSE IF ~Has("iasValidity") THEN [err |-> "KeyError", val |-> NoValue]
        ELSE IF Validity_fromString(fromJson["iasValidity"]).err # "none"
             THEN [err |-> Validity_fromString(fromJson["iasValidity"]).err, val |-> NoValue]
        ELSE [err |-> "none",
              val |-> [value |-> fromJson["value"],
                       valueTypeStr |-> fromJson["valueType"],
                       valueType |-> IASType_fromString(fromJson["valueType"]).val,
                       fullRunningId |-> fromJson["fullRunningId"],
                       id |-> getIdFromFullRunningId(fromJson["fullRunningId"]).val,
                       dependentsFullRuningIds |-> getValue(fromJson, "depsFullRunningIds"),
                       modeStr |-> fromJson["mode"],
                       mode |-> OperationalMode_fromString(fromJson["mode"]).val,
                       iasValidityStr |-> fromJson["iasValidity"],
                       iasValidity |-> Validity_fromString(fromJson["iasValidity"]).val,
                       props |-> getValue(fromJson, "props"),
                       tStampStr |-> [k \in TStampKeys |-> getValue(fromJson, k)],
                       tStamp |-> [k \in TStampKeys |->
                                      IF getValue(fromJson, k) # PyNone
                                      THEN Iso8601ToDatetime(getValue(fromJson, k))
                                      ELSE PyNone]]]

\* the attribute of the IasValue that toJSonString writes under a key
AttrOf(v, key) ==
    CASE key = "value" -> v.value
      [] key = "valueType" -> v.valueTypeStr
      [] key = "fullRunningId" -> v.fullRunningId
      [] key = "mode" -> v.modeStr
      [] key = "iasValidity" -> v.iasValidityStr
      [] key = "depsFullRunningIds" -> v.dependentsFullRuningIds
      [] key = "props" -> v.props
      [] OTHER -> v.tStampStr[key]

\* toJSonString that never writes the props
toJSonStringNoProps(v) ==
    LET keys == RequiredKeys \cup {k \in OptionalKeys \ {"props"} : AttrOf(v, k) # PyNone}
    IN  json_dumps([k \in keys |-> AttrOf(v, k)])

\* IasValue.toJSonString: the five required keys, and the key of every
\* optional attribute that is not None
toJSonString(v) ==
    LET keys == RequiredKeys \cup {k \in OptionalKeys : AttrOf(v, k) # PyNone}
    IN  json_dumps([k \in keys |-> AttrOf(v, k)])

\* the fullRunningIds of the payloads
FridGood == <<"(", "compA", ":", "OtherType", ")", "@", "(", "compB", ":", "IASIO", ")">>
FridNameOnly == <<"(", "IASIO", ":", "OtherType", ")">>
FridNoIasio == <<"(", "compB", ":", "OtherType", ")">>

\* the value a payload of the model has under a key
PayloadValue(key, vt, frid, m, val) ==
    CASE key = "value" -> PyStr("5")
      [] key = "valueType" -> PyStr(vt)
      [] key = "fullRunningId" -> frid
      [] key = "mode" -> PyStr(m)
      [] key = "iasValidity" -> PyStr(val)
      [] OTHER -> PyStr(key)

Payload(keys, vt, frid, m, val) ==
    JsonText([k \in keys |-> PayloadValue(k, vt, frid, m, val)])

\* the payloads IasValue is built from: every required key and any optional
\* keys, with any contents; or some required keys, with no or every
\* optional key; or a text that is not JSON
Payloads ==
    {Payload(RequiredKeys \cup o, vt, frid, m, val) :
        o \in SUBSET OptionalKeys, vt \in {"INT", "BOGUS"},
        frid \in {FridGood, FridNameOnly, FridNoIasio},
        m \in {"OPERATIONAL", "BOGUS"}, val \in {"RELIABLE", "BOGUS"}}
    \cup {Payload(r \cup o, "ALARM", FridGood, "MAINTENANCE", "UNRELIABLE") :
            r \in SUBSET RequiredKeys, o \in {{}, OptionalKeys}}
    \cup {NotJson}

\* JsonMsg.isoTimestamp(tStamp): the error raised (or "none") and the text
isoTimestampCall(tStamp) ==
    IF IsoSplitParts(tStamp) < 2 THEN [err |-> "IndexError", val |-> PyNone]
    ELSE [err |-> "none", val |-> isoTimestamp(tStamp)]

\* the microseconds of the datetimes isoTimestamp is called with
Microseconds == {0, 1, 999, 1000, 1499, 1500, 1999, 775444, 500000, 999499, 999500, 999999}
TStamps == {PyDt(5, u) : u \in Microseconds}

NoInput == [kind |-> "none"]
NoOutput == [err |-> "none", val |-> NoValue]

\* the arguments JsonMsg(id, value, valueType, timestamp) is called with
SampleArgs ==
    {[kind |-> "sample", id |-> i, value |-> v, valueType |-> vt, timestamp |-> t] :
        i \in {PyStr(""), PyStr("a")},
        v \in {PyStr(""), PyStr("5")},
        vt \in {PyStr(""), PyStr("INT"), PyStr("int"), PyStr("ALARM"), PyStr("BOGUS")},
        t \in {DtA, DtB, DtZ}}

\* the clock when "def __init__(..., timestamp=datetime.utcnow())" was
\* executed, and the clock when JsonMsg(id, value, valueType) is called
ClockArgs ==
    {a \in {[kind |-> "clock", defined |-> d, called |-> c] :
                d \in {DtA, DtB}, c \in {DtA, DtB}} : a.called.sec >= a.defined.sec}

\* the timestamp of a call that passes none: the value the default
\* expression had when the def statement was executed
DefaultTimestamp(defined, called) == defined

\* the arguments of the calls
CodecInputs ==
    {[kind |-> "frid", frid |-> f] : f \in FullRunningIds}
    \cup {[kind |-> "payload", jsonStr |-> j] : j \in Payloads}
    \cup {[kind |-> "tstamp", tStamp |-> t] : t \in TStamps}
    \cup SampleArgs
    \cup ClockArgs

\* no function is being called
CodecIdle ==
    /\ input = NoInput
    /\ output = NoOutput
    /\ encoded = NotJson
    /\ output2 = NoOutput
    /\ codecPc = "idle"

\* a call is about to be made with some argument
CodecReady ==
    /\ input \in CodecInputs
    /\ output = NoOutput
    /\ encoded = NotJson
    /\ output2 = NoOutput
    /\ codecPc = "ready"

\* getIdFromFullRunningId(frid) is called
GetIdFromFullRunningId ==
    /\ codecPc = "ready"
    /\ input.kind = "frid"
    /\ output' = getIdFromFullRunningId(input.frid)
    /\ codecPc' = "done"
    /\ UNCHANGED <<input, encoded, output2>>
    /\ UNCHANGED <<senderVars, consumerVars>>

\* IasValue(jsonStr) is called
Decode ==
    /\ codecPc = "ready"
    /\ input.kind = "payload"
    /\ output' = IasValueInit(input.jsonStr)
    /\ codecPc' = IF output'.err = "none" THEN "decoded" ELSE "done"
    /\ UNCHANGED <<input, encoded, output2>>
    /\ UNCHANGED <<senderVars, consumerVars>>

\* toJSonString() is called on the IasValue
Encode ==
    /\ codecPc = "decoded"
    /\ encoded' = toJSonString(output.val)
    /\ codecPc' = "encoded"
    /\ UNCHANGED <<input, output, output2>>
    /\ UNCHANGED <<senderVars, consumerVars>>

\* IasValue(...) is called with the text toJSonString returned
DecodeEncoded ==
    /\ codecPc = "encoded"
    /\ output2' = IasValueInit(encoded)
    /\ codecPc' = "done"
    /\ UNCHANGED <<input, output, encoded>>
    /\ UNCHANGED <<senderVars, consumerVars>>

\* isoTimestamp(tStamp) is called
IsoTimestamp ==
    /\ codecPc = "ready"
    /\ input.kind = "tstamp"
    /\ output' = isoTimestampCall(input.tStamp)
    /\ codecPc' = "done"
    /\ UNCHANGED <<input, encoded, output2>>
    /\ UNCHANGED <<senderVars, consumerVars>>

\* JsonMsg(id, value, valueType, timestamp) is called
NewJsonMsg ==
    /\ codecPc = "ready"
    /\ input.kind = "sample"
    /\ LET r == JsonMsgInit(input.id, input.value, input.valueType, input.timestamp)
       IN  output' = [err |-> r.err, val |-> r.msg]
    /\ codecPc' = "done"
    /\ UNCHANGED <<input, encoded, output2>>
    /\ UNCHANGED <<senderVars, consumerVars>>

\* JsonMsg(id, value, valueType) is called, without a timestamp
NewJsonMsgDefault ==
    /\ codecPc = "ready"
    /\ input.kind = "clock"
    /\ LET r == JsonMsgInit(PyStr("a"), PyStr("5"), PyStr("INT"),
                            DefaultTimestamp(input.defined, input.called))
       IN  output' = [err |-> r.err, val |-> r.msg]
    /\ codecPc' = "done"
    /\ UNCHANGED <<input, encoded, output2>>
    /\ UNCHANGED <<senderVars, consumerVars>>

CodecNext ==
    \/ NewJsonMsg
    \/ NewJsonMsgDefault
    \/ GetIdFromFullRunningId
    \/ Decode
    \/ Encode
    \/ DecodeEncoded
    \/ IsoTimestamp

Init == SenderInit /\ ConsumerInit /\ CodecIdle
Next == SenderNext
vars == <<senderVars, consumerVars, codecVars>>
Spec == Init /\ [][Next]_vars

\* Threads that exist keep running: a caller inside a call, and the worker
\* inside the task, take their next step.  The task itself starts to run when
\* an armed timer expires.
CallProgress(c) ==
    \/ SubmitAcquire(c) \/ SubmitStore(c) \/ SubmitLog(c)
    \/ ShutdownAcquire(c) \/ ShutdownSetFlag(c) \/ ShutdownCancel(c) \/ ShutdownJoin(c)
TimerExpires == TimerArmed /\ RunFlushTask
FairSpec ==
    /\ Spec
    /\ \A c \in Callers : WF_vars(CallProgress(c))
    /\ WF_vars(WorkerStep)
    /\ WF_vars(TimerExpires)

\* The consumer with the producers that publish on the topic
ConsumerSpec == Init /\ [][ConsumerNext]_vars

\* The consumer thread, once started, keeps running: the statement it is at
\* is executed.  That poll raises is not something fairness brings about.
ConsumerThreadStep ==
    \/ SeekToEnd \/ Poll \/ HandleRecord \/ DecodeFails \/ ListenerFails \/ HandleDone
ConsumerFairSpec == ConsumerSpec /\ WF_vars(ConsumerThreadStep)

\* The functions of IasValue and JsonMsg, called with every argument of the model
CodecInit == SenderInit /\ ConsumerInit /\ CodecReady
CodecSpec == CodecInit /\ [][CodecNext]_vars

-----------------------------------------------------------------------------
(* Properties of the sender *)

Stored == 1..Len(info)
Buffered == {MPointsToSend[x].ser : x \in DOMAIN MPointsToSend}
TakenBy(s) == {k \in 1..Len(batches) : s \in batches[k]}
SentFor(s) == {j \in 1..Len(sent) : sent[j].ser = s}
\* the batch of drain k has been worked off: the worker is past its for loop
BatchDone(k) == k < Len(batches) \/ pcW # "send"

\* C1: every sample stored on a started sender whose shutdown flag is not set
\* and taken by a flush is transmitted exactly once by that flush (the buffer
\* holds, per id, the sample of the last submit).
C1_OneSamplePerIdPerFlush ==
    \A k \in 1..Len(batches) :
        BatchDone(k) =>
            \A s \in batches[k] :
                (info[s].started /\ ~info[s].shut) => Cardinality(SentFor(s)) = 1

\* C2: the drain is atomic with respect to submit: every stored sample is in
\* exactly one place (still buffered, replaced by a later submit of its id, or
\* taken by exactly one drain), and the drain that takes it is the first one
\* after its store, so a sample stored after drain k is in batch k+1, never in
\* batch k.
C2_DrainAtomic ==
    \A s \in Stored :
        /\ Cardinality(TakenBy(s))
             + (IF s \in Buffered THEN 1 ELSE 0)
             + (IF s \in overwritten THEN 1 ELSE 0) = 1
        /\ \A k \in TakenBy(s) : k = info[s].drains + 1

\* C2 witness: a sample stored after a first, non-empty drain was taken by
\* the second drain.
C2_Witness ==
    /\ Len(batches) >= 2
    /\ batches[1] # {}
    /\ \E s \in batches[2] : info[s].drains = 1

\* C3: no submit stores a sample in the buffer once the shutdown flag is set.
C3_NoSubmitAfterShutdown ==
    \A s \in Stored : ~info[s].shut

\* C4: no call of shutdown() ends with an error, and no sample is
\* transmitted twice.
C4_ShutdownIdempotent ==
    /\ last.op = "shutdown" => last.result = "returned"
    /\ \A s \in Stored : Cardinality(SentFor(s)) <= 1

C6_ShutdownWaitsThenCloses ==
    /\ (last.op = "shutdown" /\ started) => (sockClosed /\ pcW \in {"idle", "while"})
    /\ \A j \in 1..Len(sent) : ~sent[j].closed

\* C7: a sample buffered on a started sender is eventually transmitted,
\* unless the sender is shut down.
C7_BufferedEventuallySent ==
    (started /\ ~shuttedDown /\ MPointsToSend # <<>>) ~> (shuttedDown \/ sent # <<>>)

\* a submit call that was given a None or empty argument begins and ends
InvalidSubmitEnds ==
    /\ ncalls' = ncalls + 1
    /\ pc' = pc
    /\ last'.op = "submit"
    /\ (last'.args.none \/ last'.args.empty)

C9_SendFailureSwallowed ==
    /\ workerResult \notin Errors
    /\ pcW # "send" => valuesToSend = {}

-----------------------------------------------------------------------------
(* Properties of the consumer *)

\* the records of partition p the consumer thread has handled so far
Handled(p) == SubSeq(log[p], seekPos[p] + 1, position[p] - Len(messages[p]))
WellFormed(r) == r.ok
DeliveredOf(p) == SelectSeq(delivered, LAMBDA r : \E i \in 1..Len(log[p]) : log[p][i] = r)

\* C10: a malformed record does not end the poll loop, and the listener has
\* received, per partition and in order, exactly the well-formed records
\* among those handled.
C10_MalformedRecordSkipped ==
    /\ kResult # "DecodeError"
    /\ kResult # "ListenerError" =>
           \A p \in Partitions : DeliveredOf(p) = SelectSeq(Handled(p), WellFormed)

\* C11: an error raised by the listener for one record does not end the
\* consumer thread.
C11_ListenerFailureIsolated ==
    ~(pcK = "died" /\ kResult = "ListenerError")

\* the partition a record was published on
PartitionOf(r) == CHOOSE p \in Partitions : \E i \in 1..Len(log[p]) : log[p][i] = r
\* the records that were on the log of some partition when start() was called
OnLogAtStart == UNION {{log[p][i] : i \in 1..startLen[p]} : p \in Partitions}

\* C12: no record that was on the log when start() was called is passed to
\* the listener, and no poll happens before the seek to the end.
C12_NoHistoryReplayed ==
    /\ \A i \in 1..Len(delivered) : delivered[i] \notin OnLogAtStart
    /\ pcK \in {"poll", "handle"} => \A p \in Partitions : seekPos[p] >= startLen[p]

\* C12 witness: records were on the log at start(), and a later record has
\* been passed to the listener.
C12_Witness ==
    /\ OnLogAtStart # {}
    /\ delivered # <<>>

\* C13: the records of one partition are passed to the listener in the order
\* of their publication, each at most once.
C13_PartitionOrder ==
    \A i, j \in 1..Len(delivered) :
        (i < j /\ PartitionOf(delivered[i]) = PartitionOf(delivered[j]))
            => delivered[i].n < delivered[j].n

\* C13 witness: two records of one partition have been delivered, and two
\* records of different partitions in the reverse of their publication order.
C13_Witness ==
    /\ \E i, j \in 1..Len(delivered) :
           i < j /\ PartitionOf(delivered[i]) = PartitionOf(delivered[j])
    /\ \E i, j \in 1..Len(delivered) :
           i < j /\ delivered[i].n > delivered[j].n

\* C14: the consumer thread has ended only by a cancellation or by a failure
\* of the transport (poll).
C14_TerminatesOnlyOnCancelOrTransport ==
    pcK \in {"terminated", "died"} => kResult \in {"Cancelled", "PollError"}

\* C15: once the application has asked the consumer to stop, the consumer
\* thread eventually ends.
C15_CancelEventuallyTerminates ==
    cancelReq ~> (pcK \in {"terminated", "died"})

\* C16: a construction without an IasValueListener ends with ValueError, no
\* connection to the BSDB has been made and no thread is started; a consumer
\* that exists has a listener.
C16_NoListenerFailsFast ==
    /\ ctorArgs.listener \in {"None", "object"} =>
           (pcK = "failed" /\ kResult = "ValueError" /\ consumer = "none" /\ assigned = {})
    /\ pcK \notin {"unbuilt", "failed"} => listener = "listener"

\* C16 witness: a construction with no listener has failed.
C16_Witness ==
    /\ ctorArgs.listener = "None"
    /\ pcK = "failed"

-----------------------------------------------------------------------------
(* Properties of the values *)

\* the grammar of a fullRunningId: every segment is "(name:type)"
SegmentWellFormed(g) ==
    /\ Len(g) >= 2
    /\ g[1] = "("
    /\ g[Len(g)] = ")"
    /\ Count(g, ":") = 1
SegmentName(g) == Split(SubSeq(g, 2, Len(g) - 1), ":")[1]
SegmentType(g) == Split(SubSeq(g, 2, Len(g) - 1), ":")[2]
\* the segments whose type contains the literal IASIO
TaggedSegments(frid) ==
    LET parts == Split(frid, "@")
    IN  {i \in 1..Len(parts) : Count(SegmentType(parts[i]), "IASIO") > 0}
GrammarHolds(frid) ==
    /\ \A i \in 1..Len(Split(frid, "@")) : SegmentWellFormed(Split(frid, "@")[i])
    /\ Cardinality(TaggedSegments(frid)) = 1
GrammarId(frid) ==
    SegmentName(Split(frid, "@")[CHOOSE i \in TaggedSegments(frid) : TRUE])

\* C17: getIdFromFullRunningId raises exactly for the identifiers outside
\* the grammar (a segment without its parentheses or its colon, or not
\* exactly one segment with a type that contains IASIO), and gives the name
\* of the segment with the IASIO type for the others.
C17_FullRunningIdParsing ==
    (codecPc = "done" /\ input.kind = "frid") =>
        IF GrammarHolds(input.frid)
        THEN output.err = "none" /\ output.val = GrammarId(input.frid)
        ELSE output.err # "none"

\* the optional keys whose attribute the IasValue has
Populated(v) == {k \in OptionalKeys : AttrOf(v, k) # PyNone}

\* C18: an IasValue built again from the text toJSonString returned has the
\* attributes of the first, and the text has the required keys and the key
\* of every populated optional attribute, and no other.
C18_RoundTrip ==
    (codecPc = "done" /\ input.kind = "payload" /\ output.err = "none") =>
        /\ output2.err = "none"
        /\ output2.val = output.val
        /\ DOMAIN encoded.obj = RequiredKeys \cup Populated(output.val)
        /\ Populated(output.val) = DOMAIN input.jsonStr.obj \cap OptionalKeys
        /\ \A k \in DOMAIN encoded.obj \cap OptionalKeys : encoded.obj[k] # PyNone

\* C18 witness: a value that has the props and one of the timestamps but no
\* dependents has made the round trip.
C18_Witness ==
    /\ codecPc = "done"
    /\ input.kind = "payload"
    /\ output.err = "none"
    /\ output2.err = "none"
    /\ output.val.props # PyNone
    /\ output.val.dependentsFullRuningIds = PyNone
    /\ output.val.tStampStr["sentToBsdbTStamp"] # PyNone
    /\ output.val.tStampStr["dasuProductionTStamp"] = PyNone

\* the payload has what a canonical value needs
PayloadValid(jsonStr) ==
    /\ jsonStr.wellformed
    /\ RequiredKeys \subseteq DOMAIN jsonStr.obj
    /\ jsonStr.obj["valueType"].s \in IASTypes
    /\ jsonStr.obj["mode"].s \in OperationalModes
    /\ jsonStr.obj["iasValidity"].s \in Validities
    /\ GrammarHolds(jsonStr.obj["fullRunningId"])

\* C19: IasValue(jsonStr) raises, and there is no object, when a required
\* key is missing, when valueType, mode or iasValidity is no member of its
\* enumeration or when the fullRunningId is outside the grammar; it gives
\* an object otherwise.
C19_DecodeValidation ==
    (codecPc \in {"decoded", "done"} /\ input.kind = "payload") =>
        IF PayloadValid(input.jsonStr)
        THEN output.err = "none" /\ output.val # NoValue
        ELSE output.err # "none" /\ output.val = NoValue

\* C20: isoTimestamp gives, for every datetime, the seconds and the first
\* three digits of the microseconds.
C20_MillisecondTruncation ==
    (codecPc = "done" /\ input.kind = "tstamp") =>
        /\ output.err = "none"
        /\ output.val.sec = input.tStamp.sec
        /\ output.val.frac = input.tStamp.frac \div 1000

-----------------------------------------------------------------------------
(* Further properties of the sender *)

\* a submit call that was given valid arguments begins and ends in one step
ValidSubmitEnds ==
    /\ ncalls' = ncalls + 1
    /\ pc' = pc
    /\ last'.op = "submit"
    /\ last'.args.valid

\* C22: a submit with a non-empty id, a datetime timestamp, a non-empty
\* value and a listed type, on a started sender that is not shut down, does
\* not end at the construction of its message: it raises nothing and goes on
\* to the store.
C22_ValidSubmitStores ==
    [][(started /\ ~shuttedDown) => ~ValidSubmitEnds]_vars

\* the datagrams sent for the samples of drain k
SentOfBatch(k) == {j \in 1..Len(sent) : sent[j].ser \in batches[k]}

\* C23: a firing that has drained k samples has sent k datagrams when it is
\* past its for loop, and a firing that is back at the head of the loop on a
\* sender that is not shut down has left an armed timer.
C23_FlushSendsAndReschedules ==
    /\ \A k \in 1..Len(batches) :
           BatchDone(k) => Cardinality(SentOfBatch(k)) = Cardinality(batches[k])
    /\ (Len(batches) > 0 /\ pcW = "while" /\ ~shuttedDown) => TimerArmed

\* the state of the sender's lifecycle (Started and Running are one state:
\* a started sender whose flush task is not inside an iteration of its loop)
Lifecycle ==
    IF sockClosed THEN "Closed"
    ELSE IF shuttedDown THEN "ShuttingDown"
    ELSE IF ~started THEN "Created"
    ELSE IF pcW \notin {"idle", "while"} THEN "Flushing"
    ELSE "Running"

LifecycleSteps ==
    {<<"Created", "Running">>, <<"Created", "Flushing">>,
     <<"Running", "Flushing">>, <<"Flushing", "Running">>,
     <<"Running", "ShuttingDown">>, <<"Flushing", "ShuttingDown">>,
     <<"ShuttingDown", "Closed">>}

\* C24: the lifecycle changes only along Created -> Running <-> Flushing ->
\* ShuttingDown -> Closed, and a sender on which a shutdown() call has ended
\* is Closed.
C24_Lifecycle ==
    [][ /\ Lifecycle' # Lifecycle => <<Lifecycle, Lifecycle'>> \in LifecycleSteps
        /\ sdDone' => Lifecycle' = "Closed" ]_vars

\* C25: a thread that reads or writes the buffer holds the lock.
C25_BufferAccessUnderLock ==
    [][ /\ \A c \in Callers : CallerTouchesBuffer(c) => lock = c
        /\ WorkerTouchesBuffer => lock = Worker ]_vars

\* C26: a lock that is held is released, and a submit call that has begun
\* ends.
C26_SubmitTerminates ==
    /\ \A c \in Callers : (pc[c] \in {"sub_acquire", "sub_store", "sub_log"}) ~> (pc[c] = "idle")
    /\ (lock # "free") ~> (lock = "free")

\* C26 witness: a submit call waits for the lock that another thread holds.
C26_Witness ==
    \E c \in Callers : pc[c] = "sub_acquire" /\ lock \notin {"free", c}

C30_NoFinalFlush ==
    /\ ~shuttedDown =>
           \A k \in 1..Len(batches) : BatchDone(k) => \A s \in batches[k] : SentFor(s) # {}
    /\ shuttedDown => \A s \in Buffered : SentFor(s) = {}

-----------------------------------------------------------------------------
(* Further properties of the consumer and of the values *)

\* C27: the thread runs only with every partition of the topic assigned,
\* nothing is polled before the seek, and a poll starts at or past the end
\* the log had at start().
C27_AssignSeekPoll ==
    /\ pcK \in {"seek", "poll", "handle", "terminated", "died"} => assigned = Partitions
    /\ pcK \in {"unbuilt", "failed", "new", "seek"} =>
           /\ \A p \in Partitions : position[p] = 0 /\ messages[p] = <<>>
           /\ delivered = <<>>
    /\ pcK \in {"poll", "handle"} =>
           \A p \in Partitions : position[p] >= seekPos[p] /\ seekPos[p] >= startLen[p]

\* C27 witness: a poll has returned records of the second partition on a
\* topic that had records at start().
C27_Witness ==
    /\ pcK = "handle"
    /\ messages[NPartitions] # <<>>
    /\ \E p \in Partitions : startLen[p] > 0

\* C21: JsonMsg(id, value, valueType, timestamp) with a datetime timestamp
\* gives an object when id and value are not empty and the type is listed,
\* and raises, giving none, otherwise.
C21_SampleValidation ==
    (codecPc = "done" /\ input.kind = "sample") =>
        IF /\ input.id.s # ""
           /\ input.value.s # ""
           /\ Upper(input.valueType).s \in IAS_SUPPORTED_TYPES
        THEN output.err = "none" /\ output.val # NoMsg
        ELSE output.err # "none" /\ output.val = NoMsg

\* C28: a JsonMsg built without a timestamp carries the clock of the call.
C28_DefaultTimestampAtCall ==
    (codecPc = "done" /\ input.kind = "clock") =>
        /\ output.err = "none"
        /\ output.val.timestamp = isoTimestamp(input.called)

====
